---- MODULE Spec2Model ----
(***************************************************************************)
(* VeSync integration: entry setup, device bucketizer, discovery           *)
(* reconciler, entry unload and the platform-side read of the stored       *)
(* buckets (homeassistant/components/vesync).                              *)
(***************************************************************************)
EXTENDS Integers, Sequences, FiniteSets, TLC

(* ------------------------------ const.py ------------------------------ *)
VS_SWITCHES == "switches"
VS_FANS == "fans"
VS_LIGHTS == "lights"
VS_SENSORS == "sensors"
VS_HUMIDIFIERS == "humidifiers"
VS_NUMBERS == "numbers"
VS_BINARY_SENSORS == "binary_sensors"
VS_MANAGER == "manager"

\* VS_DISCOVERY.format(domain)
VS_DISCOVERY(domain) == <<"vesync_discovery_", domain>>

\* The PLATFORMS dict of __init__.py, as (platform, domain) items in
\* insertion order.
PLATFORMS ==
    << <<"binary_sensor", VS_BINARY_SENSORS>>,
       <<"fan", VS_FANS>>,
       <<"humidifier", VS_HUMIDIFIERS>>,
       <<"light", VS_LIGHTS>>,
       <<"number", VS_NUMBERS>>,
       <<"sensor", VS_SENSORS>>,
       <<"switch", VS_SWITCHES>> >>

Domains == {PLATFORMS[i][2] : i \in DOMAIN PLATFORMS}

PlatformOf(domain) ==
    PLATFORMS[CHOOSE i \in DOMAIN PLATFORMS : PLATFORMS[i][2] = domain][1]

(* ------------------------- devices and managers ------------------------ *)
\* Device handles of the vendor library, with their device_type and the
\* answer of their is_dimmable() method.
HUMIDIFIER_MODEL == "HUMIDIFIER_MODEL"
FAN_MODEL == "FAN_MODEL"
OUTLET_MODEL == "OUTLET_MODEL"
SWITCH_MODEL == "SWITCH_MODEL"
DIM_SWITCH_MODEL == "DIM_SWITCH_MODEL"
BULB_MODEL == "BULB_MODEL"

FanDevices == {"fan", "humidifier1", "humidifier2"}
BulbDevices == {"bulb"}
OutletDevices == {"outlet"}
SwitchDevices == {"switch", "switch2"}
Devices == FanDevices \cup BulbDevices \cup OutletDevices \cup SwitchDevices

device_type(d) ==
    CASE d = "fan" -> FAN_MODEL
      [] d = "humidifier1" -> HUMIDIFIER_MODEL
      [] d = "humidifier2" -> HUMIDIFIER_MODEL
      [] d = "bulb" -> BULB_MODEL
      [] d = "outlet" -> OUTLET_MODEL
      [] d = "switch" -> SWITCH_MODEL
      [] d = "switch2" -> DIM_SWITCH_MODEL
      [] d = "invalid" -> "invalid_type"
      [] d = "base_device" -> "ANYTHING"

is_dimmable(d) == d = "switch2"

\* pyvesync.vesyncfan.humid_features (the table the classifier reads).
humid_features ==
    [k \in {HUMIDIFIER_MODEL, "Model2"} |->
        IF k = HUMIDIFIER_MODEL
        THEN [models |-> {HUMIDIFIER_MODEL, "AAA-BBB-CCC"}]
        ELSE [models |-> {"XXX-YYY-ZZZ"}]]

\* Bounds on the lists one poll of the manager can report.
MaxFans == 2
MaxBulbs == 1
MaxOutlets == 1
MaxSwitches == 2

\* The lists of at most n devices of S, no device twice.
ListsUpTo(S, n) ==
    UNION {{s \in [1..k -> S] : \A i, j \in 1..k : i # j => s[i] # s[j]} : k \in 0..n}

\* The four device lists of a manager, its fans taken from fan_pool.
ManagerLists(fan_pool, nf, nb, no, ns) ==
    [fans : ListsUpTo(fan_pool, nf),
     bulbs : ListsUpTo(BulbDevices, nb),
     outlets : ListsUpTo(OutletDevices, no),
     switches : ListsUpTo(SwitchDevices, ns)]

\* A manager right after VeSync(username, password, time_zone).
NewManager == [fans |-> <<>>, bulbs |-> <<>>, outlets |-> <<>>, switches |-> <<>>]

(* --------------------- common.py: VeSyncDeviceHelper ------------------- *)
\* A cache attribute of the helper: None, or the cached set of models.
NoCache == [is_none |-> TRUE, models |-> {}]
Cached(S) == [is_none |-> FALSE, models |-> S]

\* The class attributes of VeSyncDeviceHelper (DEVICE_HELPER at import).
HelperInit ==
    [air_models |-> NoCache,
     dim_switch_models |-> NoCache,
     humidifier_models |-> NoCache,
     outlet_models |-> NoCache,
     switch_models |-> NoCache]

\* set(chain(*[f["models"] for f in table.values()])).union(table.keys())
ModelsAndKeys(table) ==
    UNION {table[k].models : k \in DOMAIN table} \cup DOMAIN table

\* The helper after one is_humidifier call (the cache is filled on first use).
is_humidifier_helper(h) ==
    IF h.humidifier_models.is_none
    THEN [h EXCEPT !.humidifier_models = Cached(ModelsAndKeys(humid_features))]
    ELSE h

\* The value is_humidifier(device_type) returns on helper h.
is_humidifier(h, t) == t \in is_humidifier_helper(h).humidifier_models.models

\* pyvesync.vesyncfan.air_features
air_features ==
    [k \in {FAN_MODEL, "Model2"} |->
        IF k = FAN_MODEL
        THEN [models |-> {FAN_MODEL, "BBB-CCC-DDD"}]
        ELSE [models |-> {"WWW-XXX-YYY"}]]

\* pyvesync.vesyncoutlet.outlet_features (only its keys are read).
outlet_features == [k \in {OUTLET_MODEL, "Model2"} |-> <<>>]

\* pyvesync.vesyncswitch.feature_dict, imported as switch_features.
switch_features ==
    [k \in {SWITCH_MODEL, DIM_SWITCH_MODEL, "Model2"} |->
        IF k = DIM_SWITCH_MODEL
        THEN [features |-> {"dimmable"}]
        ELSE [features |-> {}]]

\* Mutant: a switch type with the dimmable feature is listed under both
\* keys.
process_switches_both ==
    [dimmable |-> {k \in DOMAIN switch_features :
                      "dimmable" \in switch_features[k].features},
     non_dimmable |-> DOMAIN switch_features]

\* VeSyncDeviceHelper._process_switches (the two lists are only ever made
\* into sets).
process_switches ==
    [dimmable |-> {k \in DOMAIN switch_features :
                      "dimmable" \in switch_features[k].features},
     non_dimmable |-> {k \in DOMAIN switch_features :
                          "dimmable" \notin switch_features[k].features}]

\* Building a cache reads value[field] of every table entry; a missing
\* field raises KeyError.
CacheFillRaises(table, field) ==
    \E k \in DOMAIN table : field \notin DOMAIN table[k]

\* The five type queries of the helper.
Capabilities ==
    {"air_purifier", "dimmable_switch", "humidifier", "outlet", "switch"}

\* Mutant: is_outlet answers with the negated membership test.
is_outlet_negated(h, t) ==
    LET filled == IF h.outlet_models.is_none
                  THEN [h EXCEPT !.outlet_models = Cached(DOMAIN outlet_features)]
                  ELSE h
    IN [helper |-> filled, raised |-> FALSE,
        value |-> t \notin filled.outlet_models.models]

\* is_outlet(device_type) on helper h: the helper afterwards, whether the
\* call raised, and the value returned.
is_outlet(h, t) ==
    LET filled == IF h.outlet_models.is_none
                  THEN [h EXCEPT !.outlet_models = Cached(DOMAIN outlet_features)]
                  ELSE h
    IN [helper |-> filled, raised |-> FALSE,
        value |-> t \in filled.outlet_models.models]

\* is_air_purifier(device_type) on helper h.
is_air_purifier(h, t) ==
    IF h.air_models.is_none /\ CacheFillRaises(air_features, "models")
    THEN [helper |-> h, raised |-> TRUE, value |-> FALSE]
    ELSE LET filled == IF h.air_models.is_none
                       THEN [h EXCEPT !.air_models =
                                         Cached(ModelsAndKeys(air_features))]
                       ELSE h
         IN [helper |-> filled, raised |-> FALSE,
             value |-> t \in filled.air_models.models]

\* Mutant: is_switch also fills the dimmable-switch cache from the lists
\* _process_switches returned.
is_switch_fills_both(h, t) ==
    LET filled == IF h.switch_models.is_none
                  THEN [h EXCEPT !.switch_models =
                                    Cached(process_switches.non_dimmable),
                                 !.dim_switch_models =
                                    Cached(process_switches.dimmable)]
                  ELSE h
    IN [helper |-> filled, raised |-> FALSE,
        value |-> t \in filled.switch_models.models]

\* is_switch(device_type) on helper h.
is_switch(h, t) ==
    IF h.switch_models.is_none /\ CacheFillRaises(switch_features, "features")
    THEN [helper |-> h, raised |-> TRUE, value |-> FALSE]
    ELSE LET filled == IF h.switch_models.is_none
                       THEN [h EXCEPT !.switch_models =
                                         Cached(process_switches.non_dimmable)]
                       ELSE h
         IN [helper |-> filled, raised |-> FALSE,
             value |-> t \in filled.switch_models.models]

\* is_dimmable_switch(device_type) on helper h.
is_dimmable_switch(h, t) ==
    IF h.dim_switch_models.is_none /\ CacheFillRaises(switch_features, "features")
    THEN [helper |-> h, raised |-> TRUE, value |-> FALSE]
    ELSE LET filled == IF h.dim_switch_models.is_none
                       THEN [h EXCEPT !.dim_switch_models =
                                         Cached(process_switches.dimmable)]
                       ELSE h
         IN [helper |-> filled, raised |-> FALSE,
             value |-> t \in filled.dim_switch_models.models]

\* One of the five queries, by name.
HelperQuery(h, capability, t) ==
    CASE capability = "air_purifier" -> is_air_purifier(h, t)
      [] capability = "dimmable_switch" -> is_dimmable_switch(h, t)
      [] capability = "humidifier" ->
            IF h.humidifier_models.is_none
               /\ CacheFillRaises(humid_features, "models")
            THEN [helper |-> h, raised |-> TRUE, value |-> FALSE]
            ELSE [helper |-> is_humidifier_helper(h), raised |-> FALSE,
                  value |-> is_humidifier(h, t)]
      [] capability = "outlet" -> is_outlet(h, t)
      [] capability = "switch" -> is_switch(h, t)

(* ------------------ __init__.py: _async_process_devices ---------------- *)
EmptyDevices == [d \in Domains |-> <<>>]

\* Mutant: a humidifier is also kept in the fans bucket.
RECURSIVE FanLoopBoth(_, _, _, _)
FanLoopBoth(fans, i, devices, h) ==
    IF i > Len(fans) THEN devices
    ELSE LET fan == fans[i]
             hum == is_humidifier(h, device_type(fan))
         IN FanLoopBoth(fans, i + 1,
               [d \in Domains |->
                   IF \/ d = VS_HUMIDIFIERS /\ hum
                      \/ d = VS_FANS
                      \/ d \in {VS_NUMBERS, VS_SWITCHES, VS_LIGHTS, VS_SENSORS,
                                VS_BINARY_SENSORS}
                   THEN Append(devices[d], fan)
                   ELSE devices[d]], h)

\* for fan in manager.fans: ...
RECURSIVE FanLoop(_, _, _, _)
FanLoop(fans, i, devices, h) ==
    IF i > Len(fans) THEN devices
    ELSE LET fan == fans[i]
             hum == is_humidifier(h, device_type(fan))
         IN FanLoop(fans, i + 1,
               [d \in Domains |->
                   IF \/ d = VS_HUMIDIFIERS /\ hum
                      \/ d = VS_FANS /\ ~hum
                      \/ d \in {VS_NUMBERS, VS_SWITCHES, VS_LIGHTS, VS_SENSORS,
                                VS_BINARY_SENSORS}
                   THEN Append(devices[d], fan)
                   ELSE devices[d]], h)

\* Mutant: the is_dimmable test is inverted.
RECURSIVE SwitchLoopInverted(_, _, _)
SwitchLoopInverted(switches, i, devices) ==
    IF i > Len(switches) THEN devices
    ELSE LET switch == switches[i]
         IN SwitchLoopInverted(switches, i + 1,
               IF is_dimmable(switch)
               THEN [devices EXCEPT ![VS_SWITCHES] = Append(@, switch)]
               ELSE [devices EXCEPT ![VS_LIGHTS] = Append(@, switch)])

\* for switch in manager.switches: ...
RECURSIVE SwitchLoop(_, _, _)
SwitchLoop(switches, i, devices) ==
    IF i > Len(switches) THEN devices
    ELSE LET switch == switches[i]
         IN SwitchLoop(switches, i + 1,
               IF ~is_dimmable(switch)
               THEN [devices EXCEPT ![VS_SWITCHES] = Append(@, switch)]
               ELSE [devices EXCEPT ![VS_LIGHTS] = Append(@, switch)])

\* The body of _async_process_devices after the awaited manager.update:
\* the devices dict, the info lines logged, and the helper afterwards.
ProcessDevices(manager, h) ==
    LET d0 == EmptyDevices
        d1 == IF manager.fans # <<>> THEN FanLoop(manager.fans, 1, d0, h) ELSE d0
        d2 == IF manager.bulbs # <<>>
              THEN [d1 EXCEPT ![VS_LIGHTS] = @ \o manager.bulbs]
              ELSE d1
        d3 == IF manager.outlets # <<>>
              THEN [d2 EXCEPT ![VS_SWITCHES] = @ \o manager.outlets,
                              ![VS_SENSORS] = @ \o manager.outlets]
              ELSE d2
        d4 == IF manager.switches # <<>>
              THEN SwitchLoop(manager.switches, 1, d3)
              ELSE d3
        l1 == IF manager.fans # <<>>
              THEN << <<Len(d1[VS_FANS]), "VeSync fans found">>,
                      <<Len(d1[VS_HUMIDIFIERS]), "VeSync humidifiers found">> >>
              ELSE <<>>
        l2 == IF manager.bulbs # <<>>
              THEN << <<Len(manager.bulbs), "VeSync lights found">> >>
              ELSE <<>>
        l3 == IF manager.outlets # <<>>
              THEN << <<Len(manager.outlets), "VeSync outlets found">> >>
              ELSE <<>>
        l4 == IF manager.switches # <<>>
              THEN << <<Len(manager.switches), "VeSync switches found">> >>
              ELSE <<>>
    IN [devices |-> d4,
        log |-> l1 \o l2 \o l3 \o l4,
        helper |-> IF manager.fans # <<>> THEN is_humidifier_helper(h) ELSE h]

(* ------------------------------- state --------------------------------- *)
Entries == {"e1"}
Calls == {"c1"}

VARIABLES
    entry,          \* per config entry: where its async_setup_entry stands
    mgr,            \* per manager object (one per entry): its four device lists
    hass_data,      \* hass.data[DOMAIN]
    service,        \* config entry bound in the registered update_devices handler
    calls,          \* per service call: where _async_new_device_discovery stands
    DEVICE_HELPER,  \* the module-level VeSyncDeviceHelper
    forward_tasks,  \* forward_setup tasks created and not yet run
    last,           \* what the handler that ran last did
    since_pass      \* whether manager lists changed since the last pass

vars == <<entry, mgr, hass_data, service, calls, DEVICE_HELPER, forward_tasks,
          last, since_pass>>

NoEntry == "none"

\* hass.data without the DOMAIN key.
NoDomain ==
    [present |-> FALSE, manager |-> NoEntry, lists |-> EmptyDevices,
     entries |-> <<>>]

\* A config entry that is not set up; logins and polls count the executor
\* jobs of the async_setup_entry call in progress.
NotLoaded == [pc |-> "not_loaded", logins |-> 0, polls |-> 0, login |-> "none"]

IdleCall == [pc |-> "idle", config_entry |-> NoEntry, manager |-> NoEntry]

NoLast ==
    [op |-> "none", entry |-> NoEntry, result |-> "none", login |-> "none",
     logins |-> 0, polls |-> 0, registered |-> FALSE, sent |-> <<>>,
     scheduled |-> <<>>, log |-> <<>>, device_dict |-> EmptyDevices,
     repeat |-> FALSE, platform |-> "none", read_none |-> FALSE,
     devices |-> <<>>, platforms |-> <<>>, capability |-> "none",
     device_type |-> "none", factory |-> "none", entities |-> <<>>,
     table_read |-> FALSE, tables |-> "none"]

NoPass == [state |-> "no_pass", manager |-> NoEntry]

\* Manager lists changing after a completed pass is remembered.
Changed(new_mgr) ==
    IF since_pass.state = "same" /\ new_mgr # mgr
    THEN [since_pass EXCEPT !.state = "changed"]
    ELSE since_pass

InitOver(E, C) ==
    /\ entry = [e \in E |-> NotLoaded]
    /\ mgr = [e \in E |-> NewManager]
    /\ hass_data = NoDomain
    /\ service = NoEntry
    /\ calls = [c \in C |-> IdleCall]
    /\ DEVICE_HELPER = HelperInit
    /\ forward_tasks = {}
    /\ last = NoLast
    /\ since_pass = NoPass

Init == InitOver(Entries, Calls)

(* ---------------------- __init__.py: async_setup_entry ------------------ *)
\* The platforms whose setup is forwarded to a platform module of this
\* integration that reads the stored buckets through get_domain_data.
ReadingPlatforms == {"sensor", "switch"}

TasksFor(e, scheduled) ==
    {[config_entry |-> e, platform |-> scheduled[i]] :
        i \in {j \in DOMAIN scheduled : scheduled[j] \in ReadingPlatforms}}

\* manager = VeSync(...); login = await hass.async_add_executor_job(manager.login)
SetupStart(e) ==
    /\ entry[e].pc = "not_loaded"
    /\ \A c \in DOMAIN calls : calls[c].manager # e
    /\ entry' = [entry EXCEPT ![e] = [NotLoaded EXCEPT !.pc = "login"]]
    /\ mgr' = [mgr EXCEPT ![e] = NewManager]
    /\ since_pass' = Changed(mgr')
    /\ last' = [NoLast EXCEPT !.op = "setup", !.entry = e, !.result = "running"]
    /\ UNCHANGED <<hass_data, service, calls, DEVICE_HELPER, forward_tasks>>

\* Mutant: the result of the login is not looked at.
LoginDoneIgnored(e, login) ==
    /\ entry[e].pc = "login"
    /\ entry' = [entry EXCEPT ![e].pc = "update",
                              ![e].login = IF login THEN "True" ELSE "False",
                              ![e].logins = @ + 1]
    /\ UNCHANGED <<mgr, hass_data, service, calls, DEVICE_HELPER, forward_tasks,
                   last, since_pass>>

\* The login job returns: if not login: return False, else go on to
\* _async_process_devices, which awaits manager.update.
LoginDone(e, login) ==
    /\ entry[e].pc = "login"
    /\ IF ~login
       THEN /\ entry' = [entry EXCEPT ![e] = NotLoaded]
            /\ last' = [NoLast EXCEPT !.op = "setup", !.entry = e,
                                      !.result = "False", !.login = "False",
                                      !.logins = entry[e].logins + 1,
                                      !.polls = entry[e].polls]
       ELSE /\ entry' = [entry EXCEPT ![e].pc = "update", ![e].login = "True",
                                      ![e].logins = @ + 1]
            /\ UNCHANGED last
    /\ UNCHANGED <<mgr, hass_data, service, calls, DEVICE_HELPER, forward_tasks,
                   since_pass>>

\* Mutant: the poll of setup is run twice.
SetupPollDoneTwice(e, m) ==
    /\ entry[e].pc = "update"
    /\ entry' = [entry EXCEPT ![e].pc = "polled", ![e].polls = @ + 2]
    /\ mgr' = [mgr EXCEPT ![e] = m]
    /\ since_pass' = Changed(mgr')
    /\ UNCHANGED <<hass_data, service, calls, DEVICE_HELPER, forward_tasks, last>>

\* The manager.update job of setup's _async_process_devices completes.
SetupPollDone(e, m) ==
    /\ entry[e].pc = "update"
    /\ entry' = [entry EXCEPT ![e].pc = "polled", ![e].polls = @ + 1]
    /\ mgr' = [mgr EXCEPT ![e] = m]
    /\ since_pass' = Changed(mgr')
    /\ UNCHANGED <<hass_data, service, calls, DEVICE_HELPER, forward_tasks, last>>

\* The manager.update job of setup raises (or setup is cancelled at the
\* await): the exception leaves async_setup_entry.
SetupPollFail(e, m) ==
    /\ entry[e].pc = "update"
    /\ entry' = [entry EXCEPT ![e] = NotLoaded]
    /\ mgr' = [mgr EXCEPT ![e] = m]
    /\ since_pass' = Changed(mgr')
    /\ last' = [NoLast EXCEPT !.op = "setup", !.entry = e, !.result = "raised",
                              !.login = entry[e].login,
                              !.logins = entry[e].logins,
                              !.polls = entry[e].polls + 1]
    /\ UNCHANGED <<hass_data, service, calls, DEVICE_HELPER, forward_tasks>>

\* Mutant: every platform is forwarded, whether its bucket has a device or
\* not.
RECURSIVE SetupLoopAlwaysForward(_, _, _)
SetupLoopAlwaysForward(i, device_dict, acc) ==
    IF i > Len(PLATFORMS) THEN acc
    ELSE LET platform == PLATFORMS[i][1]
             domain == PLATFORMS[i][2]
         IN SetupLoopAlwaysForward(i + 1, device_dict,
               [lists |-> [acc.lists EXCEPT ![domain] = <<>> \o device_dict[domain]],
                scheduled |-> Append(acc.scheduled, platform)])

\* Mutant: the devices of a bucket are stored twice.
RECURSIVE SetupLoopExtendTwice(_, _, _)
SetupLoopExtendTwice(i, device_dict, acc) ==
    IF i > Len(PLATFORMS) THEN acc
    ELSE LET platform == PLATFORMS[i][1]
             domain == PLATFORMS[i][2]
         IN SetupLoopExtendTwice(i + 1, device_dict,
               IF device_dict[domain] # <<>>
               THEN [lists |-> [acc.lists EXCEPT
                                  ![domain] = device_dict[domain] \o device_dict[domain]],
                     scheduled |-> Append(acc.scheduled, platform)]
               ELSE [lists |-> [acc.lists EXCEPT ![domain] = <<>>],
                     scheduled |-> acc.scheduled])

\* for platform, domain in PLATFORMS.items(): store the bucket and forward
\* the platform setup when the bucket has devices.
RECURSIVE SetupLoop(_, _, _)
SetupLoop(i, device_dict, acc) ==
    IF i > Len(PLATFORMS) THEN acc
    ELSE LET platform == PLATFORMS[i][1]
             domain == PLATFORMS[i][2]
         IN SetupLoop(i + 1, device_dict,
               IF device_dict[domain] # <<>>
               THEN [lists |-> [acc.lists EXCEPT ![domain] = <<>> \o device_dict[domain]],
                     scheduled |-> Append(acc.scheduled, platform)]
               ELSE [lists |-> [acc.lists EXCEPT ![domain] = <<>>],
                     scheduled |-> acc.scheduled])

\* hass.data[DOMAIN] = {}; hass.data[DOMAIN][VS_MANAGER] = manager; and the
\* buckets the loop stored.
StoreSetup(manager, lists) ==
    [present |-> TRUE, manager |-> manager, lists |-> lists, entries |-> <<>>]

\* The rest of async_setup_entry, from the classification to return True.
SetupFinish(e) ==
    /\ entry[e].pc = "polled"
    /\ LET p == ProcessDevices(mgr[e], DEVICE_HELPER)
           r == SetupLoop(1, p.devices, [lists |-> EmptyDevices, scheduled |-> <<>>])
       IN /\ hass_data' = StoreSetup(e, r.lists)
          /\ DEVICE_HELPER' = p.helper
          /\ forward_tasks' = forward_tasks \cup TasksFor(e, r.scheduled)
          /\ last' = [NoLast EXCEPT !.op = "setup", !.entry = e, !.result = "True",
                                    !.login = entry[e].login,
                                    !.logins = entry[e].logins,
                                    !.polls = entry[e].polls,
                                    !.registered = TRUE,
                                    !.scheduled = r.scheduled, !.log = p.log,
                                    !.device_dict = p.devices]
    /\ service' = e
    /\ entry' = [entry EXCEPT ![e] = [NotLoaded EXCEPT !.pc = "loaded"]]
    /\ since_pass' = NoPass
    /\ UNCHANGED <<mgr, calls>>

(* ----------------- __init__.py: _async_new_device_discovery ------------- *)
ToSet(seq) == {seq[i] : i \in DOMAIN seq}

\* The lists holding each element of S exactly once.
RECURSIVE Orderings(_)
Orderings(S) ==
    IF S = {} THEN {<<>>}
    ELSE UNION {{<<x>> \o s : s \in Orderings(S \ {x})} : x \in S}

\* list(S) for a set S of devices: its elements once each, in the
\* iteration order of the set, here the order in which they stand in
\* hash_order (a list of the devices, which the code does not control).
ListOfSet(S, hash_order) ==
    SelectSeq(hash_order, LAMBDA d : d \in S)

\* Mutant: the stored devices are not taken out of the fresh ones.
NewDevicesNoDifference(dev_dict, lists, domain) == ToSet(dev_dict[domain])

\* set(dev_dict.get(domain, [])).difference(old_devices)
NewDevices(dev_dict, lists, domain) == ToSet(dev_dict[domain]) \ ToSet(lists[domain])

\* Mutant: the signal carries the whole list after the extend.
AddNewDevicesFullList(platform, domain, new_devices, acc) ==
    LET old_devices == acc.lists[domain]
    IN IF new_devices # <<>>
       THEN IF old_devices # <<>>
            THEN [acc EXCEPT !.lists[domain] = old_devices \o new_devices,
                             !.sent = Append(@, [signal |-> VS_DISCOVERY(domain),
                                                 payload |-> old_devices \o new_devices])]
            ELSE [acc EXCEPT !.lists[domain] = old_devices \o new_devices,
                             !.scheduled = Append(@, platform)]
       ELSE acc

\* Mutant: an empty bucket is treated like an active one.
AddNewDevicesAlwaysSignal(platform, domain, new_devices, acc) ==
    LET old_devices == acc.lists[domain]
    IN IF new_devices # <<>>
       THEN [acc EXCEPT !.lists[domain] = old_devices \o new_devices,
                        !.sent = Append(@, [signal |-> VS_DISCOVERY(domain),
                                            payload |-> new_devices])]
       ELSE acc

\* Mutant: the stored list is replaced by the new devices.
AddNewDevicesReplace(platform, domain, new_devices, acc) ==
    LET old_devices == acc.lists[domain]
    IN IF new_devices # <<>>
       THEN IF old_devices # <<>>
            THEN [acc EXCEPT !.lists[domain] = new_devices,
                             !.sent = Append(@, [signal |-> VS_DISCOVERY(domain),
                                                 payload |-> new_devices])]
            ELSE [acc EXCEPT !.lists[domain] = new_devices,
                             !.scheduled = Append(@, platform)]
       ELSE acc

\* Mutant: the new devices are put in front of the stored ones.
AddNewDevicesPrepend(platform, domain, new_devices, acc) ==
    LET old_devices == acc.lists[domain]
    IN IF new_devices # <<>>
       THEN IF old_devices # <<>>
            THEN [acc EXCEPT !.lists[domain] = new_devices \o old_devices,
                             !.sent = Append(@, [signal |-> VS_DISCOVERY(domain),
                                                 payload |-> new_devices])]
            ELSE [acc EXCEPT !.lists[domain] = new_devices \o old_devices,
                             !.scheduled = Append(@, platform)]
       ELSE acc

\* Mutant: the new devices are appended to the stored list twice.
AddNewDevicesExtendTwice(platform, domain, new_devices, acc) ==
    LET old_devices == acc.lists[domain]
    IN IF new_devices # <<>>
       THEN IF old_devices # <<>>
            THEN [acc EXCEPT !.lists[domain] = old_devices \o new_devices \o new_devices,
                             !.sent = Append(@, [signal |-> VS_DISCOVERY(domain),
                                                 payload |-> new_devices])]
            ELSE [acc EXCEPT !.lists[domain] = old_devices \o new_devices \o new_devices,
                             !.scheduled = Append(@, platform)]
       ELSE acc

\* Mutant: the platform setup is forwarded for a bucket that already holds
\* devices, too.
AddNewDevicesAlwaysSetup(platform, domain, new_devices, acc) ==
    LET old_devices == acc.lists[domain]
    IN IF new_devices # <<>>
       THEN IF old_devices # <<>>
            THEN [acc EXCEPT !.lists[domain] = old_devices \o new_devices,
                             !.sent = Append(@, [signal |-> VS_DISCOVERY(domain),
                                                 payload |-> new_devices]),
                             !.scheduled = Append(@, platform)]
            ELSE [acc EXCEPT !.lists[domain] = old_devices \o new_devices,
                             !.scheduled = Append(@, platform)]
       ELSE acc

\* _add_new_devices(platform, domain), with new_devices the list made of
\* the set difference.
AddNewDevices(platform, domain, new_devices, acc) ==
    LET old_devices == acc.lists[domain]
    IN IF new_devices # <<>>
       THEN IF old_devices # <<>>
            THEN [acc EXCEPT !.lists[domain] = old_devices \o new_devices,
                             !.sent = Append(@, [signal |-> VS_DISCOVERY(domain),
                                                 payload |-> new_devices])]
            ELSE [acc EXCEPT !.lists[domain] = old_devices \o new_devices,
                             !.scheduled = Append(@, platform)]
       ELSE acc

\* for platform, domain in PLATFORMS.items(): _add_new_devices(platform, domain)
RECURSIVE DiscoveryLoop(_, _, _, _)
DiscoveryLoop(i, dev_dict, hash_order, acc) ==
    IF i > Len(PLATFORMS) THEN acc
    ELSE LET platform == PLATFORMS[i][1]
             domain == PLATFORMS[i][2]
             new_devices == ListOfSet(NewDevices(dev_dict, acc.lists, domain),
                                      hash_order)
         IN DiscoveryLoop(i + 1, dev_dict, hash_order,
                          AddNewDevices(platform, domain, new_devices, acc))

\* The update_devices service is called: the handler reads the manager
\* from hass.data and awaits manager.update in _async_process_devices.
DiscoveryStart(c) ==
    /\ calls[c].pc = "idle"
    /\ service # NoEntry
    /\ hass_data.present
    /\ calls' = [calls EXCEPT ![c] = [pc |-> "update", config_entry |-> service,
                                      manager |-> hass_data.manager]]
    /\ last' = [NoLast EXCEPT !.op = "discovery", !.entry = service,
                              !.result = "running"]
    /\ UNCHANGED <<entry, mgr, hass_data, service, DEVICE_HELPER, forward_tasks,
                   since_pass>>

\* The manager.update job of a discovery pass completes.
DiscoveryPollDone(c, m) ==
    /\ calls[c].pc = "update"
    /\ calls' = [calls EXCEPT ![c].pc = "polled"]
    /\ mgr' = [mgr EXCEPT ![calls[c].manager] = m]
    /\ since_pass' = Changed(mgr')
    /\ UNCHANGED <<entry, hass_data, service, DEVICE_HELPER, forward_tasks, last>>

\* The code of a pass after the awaited poll, on the lists the manager
\* holds: classification, then the loop over PLATFORMS.
ReconcileEffects(c) ==
    LET p == ProcessDevices(mgr'[calls[c].manager], DEVICE_HELPER)
        found == UNION {NewDevices(p.devices, hass_data.lists, d) : d \in Domains}
    IN \E hash_order \in Orderings(found) :
         LET r == DiscoveryLoop(1, p.devices, hash_order,
                                [lists |-> hass_data.lists,
                                 sent |-> <<>>, scheduled |-> <<>>])
         IN /\ hass_data' = [hass_data EXCEPT !.lists = r.lists]
            /\ forward_tasks' =
                  forward_tasks \cup TasksFor(calls[c].config_entry, r.scheduled)
            /\ last' = [NoLast EXCEPT
                          !.op = "discovery", !.entry = calls[c].config_entry,
                          !.result = "None", !.polls = 1,
                          !.sent = r.sent, !.scheduled = r.scheduled,
                          !.log = p.log, !.device_dict = p.devices,
                          !.repeat = /\ since_pass.state = "same"
                                     /\ since_pass.manager = calls[c].manager
                                     /\ mgr' = mgr]
            /\ DEVICE_HELPER' = p.helper

\* Mutant: the failure of the poll is swallowed and the pass goes on.
DiscoveryPollFailSwallowed(c, m) ==
    /\ calls[c].pc = "update"
    /\ calls' = [calls EXCEPT ![c] = IdleCall]
    /\ mgr' = [mgr EXCEPT ![calls[c].manager] = m]
    /\ ReconcileEffects(c)
    /\ since_pass' = Changed(mgr')
    /\ UNCHANGED <<entry, service>>

\* The manager.update job of a discovery pass raises, or the pass is
\* cancelled at the await: the exception leaves the handler.
DiscoveryPollFail(c, m) ==
    /\ calls[c].pc = "update"
    /\ calls' = [calls EXCEPT ![c] = IdleCall]
    /\ mgr' = [mgr EXCEPT ![calls[c].manager] = m]
    /\ since_pass' = Changed(mgr')
    /\ last' = [NoLast EXCEPT !.op = "discovery", !.entry = calls[c].config_entry,
                              !.result = "raised", !.polls = 1]
    /\ UNCHANGED <<entry, hass_data, service, DEVICE_HELPER, forward_tasks>>

\* The rest of the pass, once the poll has completed.
Reconcile(c) ==
    /\ calls[c].pc = "polled"
    /\ mgr' = mgr
    /\ ReconcileEffects(c)
    /\ since_pass' = [state |-> "same", manager |-> calls[c].manager]
    /\ calls' = [calls EXCEPT ![c] = IdleCall]
    /\ UNCHANGED <<entry, service>>

(* --------------------- __init__.py: async_unload_entry ------------------ *)
\* Mutant: the domain's state is dropped whatever async_unload_platforms
\* returned.
UnloadDropsAnyway(e, unload_ok) ==
    /\ entry[e].pc = "loaded"
    /\ hass_data.present
    /\ hass_data' = NoDomain
    /\ entry' = [entry EXCEPT ![e].pc = IF unload_ok THEN "not_loaded"
                                                     ELSE "failed_unload"]
    /\ last' = [NoLast EXCEPT !.op = "unload", !.entry = e,
                              !.platforms = [i \in DOMAIN PLATFORMS |-> PLATFORMS[i][1]],
                              !.result = IF unload_ok THEN "True" ELSE "False"]
    /\ since_pass' = NoPass
    /\ UNCHANGED <<mgr, service, calls, DEVICE_HELPER, forward_tasks>>

\* async_unload_entry, with unload_ok the result of async_unload_platforms.
Unload(e, unload_ok) ==
    /\ entry[e].pc = "loaded"
    /\ hass_data.present
    /\ hass_data' =
          IF unload_ok /\ e \in DOMAIN hass_data.entries
          THEN [hass_data EXCEPT
                  !.entries = [k \in (DOMAIN hass_data.entries) \ {e} |->
                                  hass_data.entries[k]]]
          ELSE hass_data
    /\ entry' = [entry EXCEPT ![e].pc = IF unload_ok THEN "not_loaded"
                                                     ELSE "failed_unload"]
    /\ last' = [NoLast EXCEPT !.op = "unload", !.entry = e,
                              !.platforms = [i \in DOMAIN PLATFORMS |-> PLATFORMS[i][1]],
                              !.result = IF unload_ok THEN "True" ELSE "False"]
    /\ since_pass' = NoPass
    /\ UNCHANGED <<mgr, service, calls, DEVICE_HELPER, forward_tasks>>

(* ------- common.py: get_domain_data; sensor.py, switch.py: setup -------- *)
\* get_domain_data(hass, config_entry, key): the stored value, or None.
get_domain_data(hd, e, key) ==
    IF hd.present /\ e \in DOMAIN hd.entries
    THEN [is_none |-> FALSE, value |-> hd.entries[e].lists[key]]
    ELSE [is_none |-> TRUE, value |-> <<>>]

PlatformDomain(platform) ==
    PLATFORMS[CHOOSE i \in DOMAIN PLATFORMS : PLATFORMS[i][1] = platform][2]

\* A forwarded platform setup runs: the sensor or switch platform's
\* async_setup_entry calls discover(get_domain_data(...)); iterating None
\* raises.
PlatformSetup(t) ==
    /\ t \in forward_tasks
    /\ forward_tasks' = forward_tasks \ {t}
    /\ LET data == get_domain_data(hass_data, t.config_entry, PlatformDomain(t.platform))
       IN last' = [NoLast EXCEPT !.op = "platform_setup", !.entry = t.config_entry,
                                 !.platform = t.platform,
                                 !.read_none = data.is_none,
                                 !.devices = data.value,
                                 !.result = IF data.is_none THEN "raised" ELSE "None"]
    /\ UNCHANGED <<entry, mgr, hass_data, service, calls, DEVICE_HELPER, since_pass>>

(* --------------------------- specification ----------------------------- *)
\* The polls of the lifecycle specification report a fan, a humidifier and
\* an outlet.
MgrStates == ManagerLists({"fan", "humidifier1"}, MaxFans, 0, MaxOutlets, 0)

NextOver(E, C, M) ==
    \/ \E e \in E : SetupStart(e)
    \/ \E e \in E, login \in BOOLEAN : LoginDone(e, login)
    \/ \E e \in E, m \in M : SetupPollDone(e, m)
    \/ \E e \in E, m \in M : SetupPollFail(e, m)
    \/ \E e \in E : SetupFinish(e)
    \/ \E c \in C : DiscoveryStart(c)
    \/ \E c \in C, m \in M : DiscoveryPollDone(c, m)
    \/ \E c \in C, m \in M : DiscoveryPollFail(c, m)
    \/ \E c \in C : Reconcile(c)
    \/ \E e \in E, unload_ok \in BOOLEAN : Unload(e, unload_ok)
    \/ \E t \in forward_tasks : PlatformSetup(t)

Next == NextOver(Entries, Calls, MgrStates)

Spec == Init /\ [][Next]_vars

(* ----------------------- two config entries ---------------------------- *)
\* Two config entries of the integration (two accounts), each with its own
\* VeSync manager, set up in the same Home Assistant.
TwoEntries == {"e1", "e2"}

InitTwoEntries == InitOver(TwoEntries, Calls)

\* The polls of this specification report at most a fan.
NextTwoEntries ==
    NextOver(TwoEntries, Calls, ManagerLists({"fan"}, MaxFans, 0, 0, 0))

SpecTwoEntries == InitTwoEntries /\ [][NextTwoEntries]_vars

(* ------------- two update_devices service calls in flight -------------- *)
\* Home Assistant runs every service call as a task of its own, so a
\* second call of update_devices may start while the first awaits its poll.
OverlapCalls == {"c1", "c2"}

\* The polls of this specification report at most a fan.
OverlapMgrStates == ManagerLists({"fan"}, MaxFans, 0, 0, 0)

InitOverlap == InitOver(Entries, OverlapCalls)

NextOverlap == NextOver(Entries, OverlapCalls, OverlapMgrStates)

SpecOverlap == InitOverlap /\ [][NextOverlap]_vars

\* The same two calls with polls that report up to two devices of the fans
\* list, so that a pass can find a new device for a bucket that holds one.
NextOverlapDevices ==
    NextOver(Entries, OverlapCalls,
             ManagerLists({"fan", "humidifier1"}, MaxFans, 0, 0, 0))

SpecOverlapDevices == InitOverlap /\ [][NextOverlapDevices]_vars

(* ------------ the bucketizer and the helper called on their own -------- *)
\* _async_process_devices(hass, manager) called directly: the poll, then
\* the classification of what the manager holds.
ProcessDevicesCall(e, m) ==
    /\ mgr' = [mgr EXCEPT ![e] = m]
    /\ LET p == ProcessDevices(m, DEVICE_HELPER)
       IN /\ last' = [NoLast EXCEPT !.op = "process_devices", !.entry = e,
                                    !.result = "devices", !.polls = 1,
                                    !.log = p.log, !.device_dict = p.devices]
          /\ DEVICE_HELPER' = p.helper
    /\ UNCHANGED <<entry, hass_data, service, calls, forward_tasks, since_pass>>

\* DEVICE_HELPER.reset_cache()
reset_cache ==
    /\ DEVICE_HELPER' = HelperInit
    /\ last' = [NoLast EXCEPT !.op = "reset_cache", !.result = "None"]
    /\ UNCHANGED <<entry, mgr, hass_data, service, calls, forward_tasks,
                   since_pass>>

AllMgrStates == ManagerLists(FanDevices, MaxFans, MaxBulbs, MaxOutlets, MaxSwitches)

NextProcess ==
    \/ \E e \in Entries, m \in AllMgrStates : ProcessDevicesCall(e, m)
    \/ reset_cache

SpecProcess == Init /\ [][NextProcess]_vars

(* ------------- sensor.py, switch.py: factories and discover ------------ *)
\* The devices handed to the platforms: four devices of the vendor
\* library, a device of a type no table lists, and a bare base device that
\* has no details mapping and whose set_display is None.
PlatformDevices == {"fan", "humidifier1", "outlet", "switch", "invalid", "base_device"}

device_name(d) == IF d = "invalid" THEN "invalid_name" ELSE "device name"

\* The optional attributes a device object has, with their values
\* ("Mock()" is a callable, "None" is None).
attributes(d) ==
    CASE d = "fan" ->
            [details |-> [air_quality |-> "50", air_quality_value |-> "None"],
             filter_life |-> "50", set_display |-> "Mock()",
             set_child_lock |-> "Mock()"]
      [] d = "humidifier1" ->
            [details |-> [humidity |-> "50"], set_display |-> "Mock()",
             set_automatic_stop |-> "Mock()"]
      [] d = "base_device" -> [set_display |-> "None"]
      [] OTHER -> [details |-> <<>>]

hasattr(d, attribute) == attribute \in DOMAIN attributes(d)

callable(value) == value = "Mock()"

\* getattr(device, dictionary, {}).get(attribute, None)
get_feature(d, dictionary, attribute) ==
    LET mapping == IF hasattr(d, dictionary) THEN attributes(d)[dictionary]
                   ELSE <<>>
    IN IF attribute \in DOMAIN mapping THEN mapping[attribute] ELSE "None"

has_feature(d, dictionary, attribute) ==
    get_feature(d, dictionary, attribute) # "None"

\* sensor.py _FACTORIES
SensorFactories ==
    <<"AirQualityEntityDescriptionFactory",
      "CurrentPowerEntityDescriptionFactory",
      "EnergyMonthlyEntityDescriptionFactory",
      "EnergyTodayEntityDescriptionFactory",
      "EnergyWeeklyEntityDescriptionFactory",
      "EnergyYearlyEntityDescriptionFactory",
      "FilterLifeEntityDescriptionFactory",
      "HumidityEntityDescriptionFactory",
      "PM25EntityDescriptionFactory",
      "VoltageEntityDescriptionFactory">>

\* switch.py _FACTORIES
SwitchFactories ==
    <<"SwitchEntityDescriptionFactory",
      "OutletEntityDescriptionFactory",
      "AutomaticStopEntityDescriptionFactory",
      "ChildLockEntityDescriptionFactory",
      "DisplayEntityDescriptionFactory">>

Factories(platform) ==
    IF platform = "sensor" THEN SensorFactories ELSE SwitchFactories

\* A supports() that does not touch the helper returns value.
Returns(h, value) == [helper |-> h, raised |-> FALSE, value |-> value]

\* hasattr(device, name) and callable(device.name)
HasCallable(d, name) == hasattr(d, name) /\ callable(attributes(d)[name])

\* factory.supports(device) on helper h: the helper afterwards, whether
\* the call raised, and the value returned.
supports(factory, d, h) ==
    CASE factory = "AirQualityEntityDescriptionFactory" ->
            Returns(h, has_feature(d, "details", "air_quality"))
      [] factory = "PM25EntityDescriptionFactory" ->
            Returns(h, has_feature(d, "details", "air_quality_value"))
      [] factory = "FilterLifeEntityDescriptionFactory" ->
            Returns(h, hasattr(d, "filter_life"))
      [] factory = "HumidityEntityDescriptionFactory" ->
            IF hasattr(d, "details")
            THEN Returns(h, "humidity" \in DOMAIN attributes(d).details)
            ELSE [helper |-> h, raised |-> TRUE, value |-> FALSE]
      [] factory = "SwitchEntityDescriptionFactory" ->
            is_switch(h, device_type(d))
      [] factory = "AutomaticStopEntityDescriptionFactory" ->
            Returns(h, HasCallable(d, "set_automatic_stop"))
      [] factory = "ChildLockEntityDescriptionFactory" ->
            Returns(h, HasCallable(d, "set_child_lock"))
      [] factory = "DisplayEntityDescriptionFactory" ->
            Returns(h, HasCallable(d, "set_display"))
      [] OTHER -> is_outlet(h, device_type(d))

\* The line discover logs for a device no factory supports.
NoEntityLine(platform, d) ==
    IF platform = "sensor"
    THEN <<device_name(d), "No sensors found for device type", device_type(d)>>
    ELSE <<device_name(d), "Unsupported device type", device_type(d)>>

\* for factory in _FACTORIES: if factory.supports(dev): ... for one device;
\* acc holds the helper, the entities so far, supported and raised.
RECURSIVE FactoryLoop(_, _, _, _)
FactoryLoop(factories, j, d, acc) ==
    IF j > Len(factories) \/ acc.raised THEN acc
    ELSE LET r == supports(factories[j], d, acc.helper)
         IN FactoryLoop(factories, j + 1, d,
               IF r.raised THEN [acc EXCEPT !.raised = TRUE]
               ELSE IF r.value
               THEN [acc EXCEPT !.helper = r.helper, !.supported = TRUE,
                                !.entities = Append(@, <<d, factories[j]>>)]
               ELSE [acc EXCEPT !.helper = r.helper])

\* for dev in devices: ... of discover.
RECURSIVE DeviceLoop(_, _, _, _)
DeviceLoop(platform, devices, i, acc) ==
    IF i > Len(devices) \/ acc.raised THEN acc
    ELSE LET r == FactoryLoop(Factories(platform), 1, devices[i],
                              [acc EXCEPT !.supported = FALSE])
         IN DeviceLoop(platform, devices, i + 1,
               IF ~r.raised /\ ~r.supported
               THEN [r EXCEPT !.log = Append(@, NoEntityLine(platform, devices[i]))]
               ELSE r)

\* discover(devices) of a platform on helper h; when nothing raised the
\* entities are handed to async_add_entities.
discover(platform, devices, h) ==
    DeviceLoop(platform, devices, 1,
               [helper |-> h, raised |-> FALSE, supported |-> FALSE,
                entities |-> <<>>, log |-> <<>>])

\* The longest device list handed to discover.
MaxDiscover == 2

\* factory.supports(d) called on its own.
SupportsCall(platform, factory, d) ==
    /\ LET r == supports(factory, d, DEVICE_HELPER)
       IN /\ DEVICE_HELPER' = r.helper
          /\ last' = [NoLast EXCEPT !.op = "supports", !.platform = platform,
                                    !.factory = factory, !.devices = <<d>>,
                                    !.result = IF r.raised THEN "raised"
                                               ELSE IF r.value THEN "True"
                                               ELSE "False"]
    /\ UNCHANGED <<entry, mgr, hass_data, service, calls, forward_tasks,
                   since_pass>>

\* The platform's discover callback runs on a device list.
DiscoverCall(platform, devices) ==
    /\ LET r == discover(platform, devices, DEVICE_HELPER)
       IN /\ DEVICE_HELPER' = r.helper
          /\ last' = [NoLast EXCEPT !.op = "discover", !.platform = platform,
                                    !.devices = devices,
                                    !.entities = IF r.raised THEN <<>> ELSE r.entities,
                                    !.log = r.log,
                                    !.result = IF r.raised THEN "raised" ELSE "None"]
    /\ UNCHANGED <<entry, mgr, hass_data, service, calls, forward_tasks,
                   since_pass>>

(* --------------- the helper's queries called on their own -------------- *)
\* The device types asked about: every key and alias of the four feature
\* tables, a bulb's type and two types no table lists.
DeviceTypes ==
    ModelsAndKeys(air_features) \cup ModelsAndKeys(humid_features)
       \cup DOMAIN outlet_features \cup DOMAIN switch_features
       \cup {BULB_MODEL, "invalid_type", "ANYTHING"}

\* DEVICE_HELPER.is_<capability>(t)
HelperQueryCall(capability, t) ==
    /\ LET q == HelperQuery(DEVICE_HELPER, capability, t)
       IN /\ DEVICE_HELPER' = q.helper
          /\ last' = [NoLast EXCEPT !.op = "helper_query",
                                    !.capability = capability,
                                    !.device_type = t,
                                    !.result = IF q.raised THEN "raised"
                                               ELSE IF q.value THEN "True"
                                               ELSE "False"]
    /\ UNCHANGED <<entry, mgr, hass_data, service, calls, forward_tasks,
                   since_pass>>

NextHelper ==
    \/ \E capability \in Capabilities, t \in DeviceTypes :
          HelperQueryCall(capability, t)
    \/ reset_cache

SpecHelper == Init /\ [][NextHelper]_vars

(* ------- the helper's queries on the feature tables as installed ------- *)
\* The four feature tables the helper imports, as the tests install them.
InstalledTables ==
    [air |-> air_features, humid |-> humid_features,
     outlet |-> outlet_features, switch |-> switch_features]

\* A table whose entry "Model2" is an empty mapping (no "models", no
\* "features").
Malformed(table) ==
    [k \in DOMAIN table |-> IF k = "Model2" THEN <<>> ELSE table[k]]

TableRevisions ==
    {"installed", "air_malformed", "humid_malformed", "switch_malformed"}

\* The tables in place when a query is made.
Revision(name) ==
    CASE name = "air_malformed" -> [InstalledTables EXCEPT !.air = Malformed(@)]
      [] name = "humid_malformed" -> [InstalledTables EXCEPT !.humid = Malformed(@)]
      [] name = "switch_malformed" -> [InstalledTables EXCEPT !.switch = Malformed(@)]
      [] OTHER -> InstalledTables

\* The cache attribute of a capability.
CacheField(capability) ==
    CASE capability = "air_purifier" -> "air_models"
      [] capability = "dimmable_switch" -> "dim_switch_models"
      [] capability = "humidifier" -> "humidifier_models"
      [] capability = "outlet" -> "outlet_models"
      [] capability = "switch" -> "switch_models"

\* Building the cache of a capability subscripts every entry of its table
\* ("models" or "features"); is_outlet reads the keys only.
FillRaises(tables, capability) ==
    CASE capability = "air_purifier" -> CacheFillRaises(tables.air, "models")
      [] capability = "humidifier" -> CacheFillRaises(tables.humid, "models")
      [] capability = "outlet" -> FALSE
      [] OTHER -> CacheFillRaises(tables.switch, "features")

\* The set the first query of a capability computes from well-formed
\* tables.
ModelSet(tables, capability) ==
    CASE capability = "air_purifier" -> ModelsAndKeys(tables.air)
      [] capability = "humidifier" -> ModelsAndKeys(tables.humid)
      [] capability = "outlet" -> DOMAIN tables.outlet
      [] capability = "switch" ->
            {k \in DOMAIN tables.switch :
                "dimmable" \notin tables.switch[k].features}
      [] capability = "dimmable_switch" ->
            {k \in DOMAIN tables.switch :
                "dimmable" \in tables.switch[k].features}

\* Mutant: every query builds the set from the table again.
HelperQueryOnRebuild(tables, h, capability, t) ==
    LET k == CacheField(capability)
    IN IF FillRaises(tables, capability)
       THEN [helper |-> h, raised |-> TRUE, value |-> FALSE, table_read |-> TRUE]
       ELSE LET filled == [h EXCEPT ![k] = Cached(ModelSet(tables, capability))]
            IN [helper |-> filled, raised |-> FALSE,
                value |-> t \in filled[k].models, table_read |-> TRUE]

\* Mutant: the cache is filled entry by entry, so the entries read before
\* the malformed one stay in it when the query raises.
HelperQueryOnPartial(tables, h, capability, t) ==
    LET k == CacheField(capability)
    IN IF h[k].is_none
       THEN IF FillRaises(tables, capability)
            THEN [helper |-> [h EXCEPT ![k] = Cached({FAN_MODEL, HUMIDIFIER_MODEL,
                                                      SWITCH_MODEL})],
                  raised |-> TRUE, value |-> FALSE, table_read |-> TRUE]
            ELSE LET filled == [h EXCEPT ![k] = Cached(ModelSet(tables, capability))]
                 IN [helper |-> filled, raised |-> FALSE,
                     value |-> t \in filled[k].models, table_read |-> TRUE]
       ELSE [helper |-> h, raised |-> FALSE, value |-> t \in h[k].models,
             table_read |-> FALSE]

\* is_<capability>(t) on helper h with the given tables in place: the
\* helper afterwards, whether the call raised, the value returned, and
\* whether the table was read.
HelperQueryOn(tables, h, capability, t) ==
    LET k == CacheField(capability)
    IN IF h[k].is_none
       THEN IF FillRaises(tables, capability)
            THEN [helper |-> h, raised |-> TRUE, value |-> FALSE,
                  table_read |-> TRUE]
            ELSE LET filled == [h EXCEPT ![k] = Cached(ModelSet(tables, capability))]
                 IN [helper |-> filled, raised |-> FALSE,
                     value |-> t \in filled[k].models, table_read |-> TRUE]
       ELSE [helper |-> h, raised |-> FALSE, value |-> t \in h[k].models,
             table_read |-> FALSE]

\* DEVICE_HELPER.is_<capability>(t) while revision name of the tables is in
\* place.
TableQueryCall(name, capability, t) ==
    /\ LET q == HelperQueryOn(Revision(name), DEVICE_HELPER, capability, t)
       IN /\ DEVICE_HELPER' = q.helper
          /\ last' = [NoLast EXCEPT !.op = "helper_query",
                                    !.capability = capability,
                                    !.device_type = t,
                                    !.tables = name,
                                    !.table_read = q.table_read,
                                    !.result = IF q.raised THEN "raised"
                                               ELSE IF q.value THEN "True"
                                               ELSE "False"]
    /\ UNCHANGED <<entry, mgr, hass_data, service, calls, forward_tasks,
                   since_pass>>

NextTables ==
    \/ \E name \in TableRevisions, capability \in Capabilities, t \in DeviceTypes :
          TableQueryCall(name, capability, t)
    \/ reset_cache

SpecTables == Init /\ [][NextTables]_vars

(* ------------ the factories and discover called on their own ----------- *)
NextDiscover ==
    \/ \E platform \in ReadingPlatforms :
          \E j \in DOMAIN Factories(platform), d \in PlatformDevices :
             SupportsCall(platform, Factories(platform)[j], d)
    \/ \E platform \in ReadingPlatforms,
          devices \in ListsUpTo(PlatformDevices, MaxDiscover) :
             DiscoverCall(platform, devices)
    \/ reset_cache

SpecDiscover == Init /\ [][NextDiscover]_vars

(* ------------------------------ properties ----------------------------- *)
\* A step in which call c runs the code after its completed poll.
IsReconcile(c) == calls[c].pc = "polled" /\ calls'[c].pc = "idle"

\* The fresh bucketization that step works on.
Fresh(c) == ProcessDevices(mgr[calls[c].manager], DEVICE_HELPER).devices

SignalsFor(sent, domain) ==
    {i \in DOMAIN sent : sent[i].signal = VS_DISCOVERY(domain)}

Count(seq, x) == Cardinality({i \in DOMAIN seq : seq[i] = x})

NoDuplicate(seq) == Cardinality(ToSet(seq)) = Len(seq)

\* C1: in a discovery pass, a bucket that was non-empty and for which the
\* fresh bucketization has a device not yet stored gets exactly one
\* discovery signal, whose payload is exactly the fresh devices not stored
\* before (each once); these are appended to the stored list, and no
\* platform setup is scheduled for the bucket.
C1_ActiveBucketSignal ==
    [][\A c \in DOMAIN calls : IsReconcile(c) =>
         \A d \in Domains :
            LET old == hass_data.lists[d]
                new == ToSet(Fresh(c)[d]) \ ToSet(old)
            IN (old # <<>> /\ new # {}) =>
                 /\ Cardinality(SignalsFor(last'.sent, d)) = 1
                 /\ \A i \in SignalsFor(last'.sent, d) :
                       /\ ToSet(last'.sent[i].payload) = new
                       /\ NoDuplicate(last'.sent[i].payload)
                       /\ hass_data'.lists[d] = old \o last'.sent[i].payload
                 /\ Count(last'.scheduled, PlatformOf(d)) = 0]_vars

\* A pass has sent a signal for a bucket whose fresh bucketization also
\* held an already stored device.
C1_Witness ==
    /\ last.op = "discovery"
    /\ last.result = "None"
    /\ \E i \in DOMAIN last.sent :
          /\ last.sent[i].payload # <<>>
          /\ ToSet(last.device_dict[last.sent[i].signal[2]])
                \ ToSet(last.sent[i].payload) # {}

\* C2: in a discovery pass, a bucket that was empty and for which the fresh
\* bucketization has a device gets its platform setup scheduled exactly
\* once, its stored list becomes the fresh devices of the bucket, and no
\* discovery signal is sent for it.
C2_EmptyBucketSetup ==
    [][\A c \in DOMAIN calls : IsReconcile(c) =>
         \A d \in Domains :
            (hass_data.lists[d] = <<>> /\ Fresh(c)[d] # <<>>) =>
               /\ Count(last'.scheduled, PlatformOf(d)) = 1
               /\ ToSet(hass_data'.lists[d]) = ToSet(Fresh(c)[d])
               /\ NoDuplicate(hass_data'.lists[d])
               /\ SignalsFor(last'.sent, d) = {}]_vars

\* A pass has scheduled a platform setup for a bucket it filled.
C2_Witness ==
    /\ last.op = "discovery"
    /\ last.result = "None"
    /\ \E i \in DOMAIN last.scheduled :
          hass_data.lists[PlatformDomain(last.scheduled[i])] # <<>>

\* C3: a discovery pass that follows a discovery pass on the same manager,
\* with the manager's lists unchanged in between, sends no signal,
\* schedules no platform setup and leaves every stored list with the same
\* devices.
C3_SecondPassNoOp ==
    [][\A c \in DOMAIN calls :
         (/\ IsReconcile(c)
          /\ since_pass.state = "same"
          /\ since_pass.manager = calls[c].manager) =>
            /\ last'.sent = <<>>
            /\ last'.scheduled = <<>>
            /\ \A d \in Domains :
                  ToSet(hass_data'.lists[d]) = ToSet(hass_data.lists[d])]_vars

\* A second pass on unchanged manager lists that hold devices has run.
C3_Witness ==
    /\ last.op = "discovery"
    /\ last.result = "None"
    /\ last.repeat
    /\ \E d \in Domains : last.device_dict[d] # <<>>

\* C4: no step of a discovery pass removes a device from a stored list,
\* whatever the manager reports.
C4_StoredNeverShrinks ==
    [][(\E c \in DOMAIN calls : calls'[c] # calls[c]) =>
         \A d \in Domains :
            ToSet(hass_data.lists[d]) \subseteq ToSet(hass_data'.lists[d])]_vars

\* A pass has run in which the manager no longer reported a stored device,
\* and reported a new one for the same bucket.
C4_Witness ==
    /\ last.op = "discovery"
    /\ last.result = "None"
    /\ \E d \in Domains :
          /\ ToSet(hass_data.lists[d]) \ ToSet(last.device_dict[d]) # {}
          /\ SignalsFor(last.sent, d) # {}

\* C5: a pass whose poll raises (or that is cancelled there) ends with the
\* stored state as before, no signal, no platform setup and the failure
\* raised to the caller; and a pass changes stored lists only in the one
\* step after its completed poll.
C5_PollFailureLeavesState ==
    [][\A c \in DOMAIN calls :
         /\ (calls[c].pc = "update" /\ calls'[c].pc = "idle") =>
               /\ hass_data' = hass_data
               /\ forward_tasks' = forward_tasks
               /\ last'.op = "discovery"
               /\ last'.result = "raised"
               /\ last'.sent = <<>>
               /\ last'.scheduled = <<>>
         /\ (calls'[c] # calls[c] /\ ~IsReconcile(c)) => hass_data' = hass_data]_vars

\* A pass has failed at its poll while the manager held a device that no
\* stored list had.
C5_Witness ==
    /\ last.op = "discovery"
    /\ last.result = "raised"
    /\ hass_data.present
    /\ \E d \in Domains :
          NewDevices(ProcessDevices(mgr[hass_data.manager], DEVICE_HELPER).devices,
                     hass_data.lists, d) # {}

\* C6: a setup whose login returned false has returned False after one
\* login attempt, without a poll or bucketization, without forwarding a
\* platform setup or registering the service, and without creating state:
\* hass.data is as before and holds no DOMAIN key unless an earlier setup
\* stored it.
C6_FailedLoginCreatesNothing ==
    /\ [](last.op = "setup" /\ last.login = "False" =>
            /\ last.result = "False"
            /\ last.logins = 1
            /\ last.polls = 0
            /\ last.device_dict = EmptyDevices
            /\ last.scheduled = <<>>
            /\ ~last.registered
            /\ (service = NoEntry => ~hass_data.present))
    /\ [][\A e \in DOMAIN entry :
            (entry[e].pc = "login" /\ entry'[e].login = "False") =>
               /\ entry'[e].pc = "not_loaded"
               /\ hass_data' = hass_data
               /\ mgr' = mgr
               /\ service' = service
               /\ forward_tasks' = forward_tasks]_vars

\* A setup has failed at its login on a fresh hass.
C6_Witness ==
    /\ last.op = "setup"
    /\ last.login = "False"
    /\ last.result = "False"
    /\ ~hass_data.present

\* C7: after a setup that returned True, hass.data[DOMAIN][entry_id] holds
\* the manager and, for each of the seven buckets, the devices the
\* bucketizer assigned to it.
C7_StateUnderEntryId ==
    (last.op = "setup" /\ last.result = "True") =>
       /\ last.entry \in DOMAIN hass_data.entries
       /\ hass_data.entries[last.entry].manager = last.entry
       /\ \A d \in Domains :
             hass_data.entries[last.entry].lists[d] = last.device_dict[d]

\* C8: after an unload whose platform unload succeeded, nothing that the
\* setup of that entry stored is left: neither its manager nor its buckets.
C8_UnloadRemovesState ==
    (last.op = "unload" /\ last.result = "True") =>
       /\ last.entry \notin DOMAIN hass_data.entries
       /\ ~(hass_data.present /\ hass_data.manager = last.entry)

\* C9: the sensor or switch platform setup forwarded for an entry reads
\* the list stored for that entry and platform, never a missing value.
C9_PlatformReadsStoredList ==
    last.op = "platform_setup" =>
       /\ ~last.read_none
       /\ last.result # "raised"
       /\ last.devices = hass_data.lists[PlatformDomain(last.platform)]

\* A device type is a key or a listed alias of the humidifier table.
InHumidTable(t) ==
    \E k \in DOMAIN humid_features : t = k \/ t \in humid_features[k].models

\* C10: in the result of one _async_process_devices call, a device of the
\* manager's fans list is in the humidifiers bucket exactly when its type
\* is a humidifier and in the fans bucket exactly when it is not, so no
\* device is in both.
C10_FanXorHumidifier ==
    last.op = "process_devices" =>
       /\ \A dev \in ToSet(mgr[last.entry].fans) :
             /\ dev \in ToSet(last.device_dict[VS_HUMIDIFIERS])
                   <=> InHumidTable(device_type(dev))
             /\ dev \in ToSet(last.device_dict[VS_FANS])
                   <=> ~InHumidTable(device_type(dev))
       /\ ToSet(last.device_dict[VS_FANS])
             \cap ToSet(last.device_dict[VS_HUMIDIFIERS]) = {}

\* A call has routed one device to fans and another to humidifiers.
C10_Witness ==
    /\ last.op = "process_devices"
    /\ last.device_dict[VS_FANS] # <<>>
    /\ last.device_dict[VS_HUMIDIFIERS] # <<>>

C12_FiveLogLines ==
    last.op = "process_devices" =>
       last.log =
          << <<Len(last.device_dict[VS_FANS]), "VeSync fans found">>,
             <<Len(last.device_dict[VS_HUMIDIFIERS]), "VeSync humidifiers found">>,
             <<Len(mgr[last.entry].bulbs), "VeSync lights found">>,
             <<Len(mgr[last.entry].outlets), "VeSync outlets found">>,
             <<Len(mgr[last.entry].switches), "VeSync switches found">> >>

\* The order of the buckets' platforms the tests of setup and of discovery
\* expect (test_init.py).
ExpectedPlatformOrder ==
    <<"switch", "fan", "light", "sensor", "humidifier", "number", "binary_sensor">>

\* The position of x in a list without repetition.
IndexOf(seq, x) == CHOOSE i \in DOMAIN seq : seq[i] = x

\* seq lists some elements of order, in the order they have in order.
FollowsOrder(seq, order) ==
    /\ ToSet(seq) \subseteq ToSet(order)
    /\ \A i, j \in DOMAIN seq :
          i < j => IndexOf(order, seq[i]) < IndexOf(order, seq[j])

\* C13: setup, every discovery pass and unload go through the buckets in
\* the order switch, fan, light, sensor, humidifier, number, binary_sensor:
\* platform setups are scheduled, discovery signals are sent and platforms
\* are listed for unload in that order.
C13_FixedBucketOrder ==
    /\ FollowsOrder(last.scheduled, ExpectedPlatformOrder)
    /\ FollowsOrder([i \in DOMAIN last.sent |->
                        PlatformOf(last.sent[i].signal[2])],
                    ExpectedPlatformOrder)
    /\ last.op = "unload" => last.platforms = ExpectedPlatformOrder

\* The manager of entry e holds no device at all.
NoDeviceAtAll(e) ==
    /\ mgr[e].fans = <<>>
    /\ mgr[e].bulbs = <<>>
    /\ mgr[e].outlets = <<>>
    /\ mgr[e].switches = <<>>

\* C14: a setup whose login succeeds and whose manager reports no device
\* returns True (its poll having completed), stores an empty list for every
\* bucket and forwards no platform; a handler forwards a platform only in a step that gives its
\* bucket its first device.
C14_NoDevicesNoForward ==
    /\ [][\A e \in Entries :
             entry[e].pc = "polled" /\ entry'[e].pc # "polled"
                /\ NoDeviceAtAll(e)
             => /\ last'.op = "setup" /\ last'.result = "True"
                /\ entry'[e].pc = "loaded"
                /\ hass_data'.present
                /\ \A d \in Domains : hass_data'.lists[d] = <<>>
                /\ last'.scheduled = <<>>
                /\ forward_tasks' = forward_tasks]_vars
    /\ [][\A i \in DOMAIN last'.scheduled :
             last'.scheduled # last.scheduled =>
                LET d == PlatformDomain(last'.scheduled[i])
                IN /\ hass_data'.lists[d] # <<>>
                   /\ last'.op = "discovery" => hass_data.lists[d] = <<>>]_vars

\* A setup on an account without devices has returned True.
C14_Witness ==
    /\ last.op = "setup"
    /\ last.result = "True"
    /\ NoDeviceAtAll(last.entry)
    /\ hass_data.present
    /\ \A d \in Domains : hass_data.lists[d] = <<>>

\* The device types that are a key or a listed alias of some feature table.
KnownTypes ==
    UNION {{k} \cup air_features[k].models : k \in DOMAIN air_features}
       \cup UNION {{k} \cup humid_features[k].models : k \in DOMAIN humid_features}
       \cup DOMAIN outlet_features \cup DOMAIN switch_features

\* C15: for a device type that is neither a key nor a listed alias of any
\* feature table, each of is_air_purifier, is_humidifier, is_outlet,
\* is_switch and is_dimmable_switch returns false and does not raise,
\* whatever the caches held before the call.
C15_UnknownTypeIsNothing ==
    last.op = "helper_query" /\ last.device_type \notin KnownTypes
       => last.result = "False"

\* A query about an unlisted type has been answered on a helper with one
\* cache filled and another still empty.
C15_Witness ==
    /\ last.op = "helper_query"
    /\ last.device_type \notin KnownTypes
    /\ last.result = "False"
    /\ \E a, b \in DOMAIN DEVICE_HELPER :
          DEVICE_HELPER[a].is_none /\ ~DEVICE_HELPER[b].is_none

\* C16: on every helper state, no device type makes is_switch and
\* is_dimmable_switch both true, and every key of the switch table makes
\* exactly one of them true: is_dimmable_switch when its features contain
\* "dimmable", is_switch otherwise.
C16_SwitchXorDimmable ==
    /\ \A t \in DeviceTypes :
          LET s == is_switch(DEVICE_HELPER, t)
              d == is_dimmable_switch(DEVICE_HELPER, t)
          IN /\ ~(s.value /\ d.value)
             /\ t \in DOMAIN switch_features =>
                   /\ ~s.raised /\ ~d.raised
                   /\ d.value <=> "dimmable" \in switch_features[t].features
                   /\ s.value <=> "dimmable" \notin switch_features[t].features
    /\ last.op = "helper_query" /\ last.device_type \in DOMAIN switch_features =>
          /\ last.capability = "switch" =>
                (last.result = "True"
                    <=> "dimmable" \notin switch_features[last.device_type].features)
          /\ last.capability = "dimmable_switch" =>
                (last.result = "True"
                    <=> "dimmable" \in switch_features[last.device_type].features)

\* Both switch caches are filled and is_switch has just answered false for
\* the dimmable switch type.
C16_Witness ==
    /\ last.op = "helper_query"
    /\ last.capability = "switch"
    /\ last.device_type = DIM_SWITCH_MODEL
    /\ last.result = "False"
    /\ ~DEVICE_HELPER.switch_models.is_none
    /\ ~DEVICE_HELPER.dim_switch_models.is_none

\* C17: supports(device) of every sensor and switch factory returns a
\* boolean and does not raise, whatever attributes the device has or lacks
\* (a device without a details mapping, or without set_display), and
\* changes neither the device nor the stored buckets.
C17_SupportsNeverRaises ==
    last.op = "supports" =>
       /\ last.result \in {"True", "False"}
       /\ hass_data = NoDomain

\* Factory f supports device d (the answer does not depend on the caches).
Supports(f, d) ==
    LET r == supports(f, d, DEVICE_HELPER) IN ~r.raised /\ r.value

\* One entity per supporting factory, device by device in list order and
\* factory by factory in _FACTORIES order.
RECURSIVE EntitiesFor(_, _, _, _)
EntitiesFor(factories, devices, i, j) ==
    IF i > Len(devices) THEN <<>>
    ELSE IF j > Len(factories) THEN EntitiesFor(factories, devices, i + 1, 1)
    ELSE (IF Supports(factories[j], devices[i])
          THEN << <<devices[i], factories[j]>> >> ELSE <<>>)
         \o EntitiesFor(factories, devices, i, j + 1)

\* The devices of a list no factory supports, in list order.
RECURSIVE Unsupported(_, _, _)
Unsupported(factories, devices, i) ==
    IF i > Len(devices) THEN <<>>
    ELSE (IF \E j \in DOMAIN factories : Supports(factories[j], devices[i])
          THEN <<>> ELSE <<devices[i]>>)
         \o Unsupported(factories, devices, i + 1)

\* C18: one discover(devices) call of the sensor or switch platform does
\* not fail; it hands async_add_entities, device by device in list order
\* and factory by factory in _FACTORIES order, one entity exactly when the
\* factory supports the device, and it logs exactly one line, naming the
\* device name and the device type, for each device no factory supports.
C18_DiscoverEntities ==
    last.op = "discover" =>
       LET factories == Factories(last.platform)
           unsupported == Unsupported(factories, last.devices, 1)
       IN /\ last.result # "raised"
          /\ last.entities = EntitiesFor(factories, last.devices, 1, 1)
          /\ Len(last.log) = Len(unsupported)
          /\ \A k \in DOMAIN last.log :
                /\ last.log[k][1] = device_name(unsupported[k])
                /\ last.log[k][3] = device_type(unsupported[k])

\* C19: two reconciliation passes of one config entry never overlap: while
\* one update_devices call is between the start of its poll and the end
\* of its reconcile step, no other call for that entry is.
C19_PassesDoNotOverlap ==
    \A c1, c2 \in DOMAIN calls :
       c1 # c2 /\ calls[c1].pc # "idle" /\ calls[c2].pc # "idle"
          => calls[c1].config_entry # calls[c2].config_entry

\* The part of list seq after its first n elements.
Rest(seq, n) == SubSeq(seq, n + 1, Len(seq))

\* C20 as stated: after a discovery pass the previously stored list is an
\* unchanged prefix of the new stored list and the newly found devices
\* follow it in the order they have in the fresh bucketization of the pass.
C20_FreshOrderKept ==
    [][\A c \in DOMAIN calls : IsReconcile(c) =>
          \A d \in Domains :
             LET old == hass_data.lists[d]
                 NotStored(dev) == dev \notin ToSet(old)
             IN hass_data'.lists[d] = old \o SelectSeq(Fresh(c)[d], NotStored)]_vars

\* C20, amended: after a discovery pass the previously stored list is an
\* unchanged prefix of the new stored list, and it is followed by the
\* fresh devices not stored before, each once, in some order.
C20_PrefixKept ==
    [][\A c \in DOMAIN calls : IsReconcile(c) =>
          \A d \in Domains :
             LET old == hass_data.lists[d]
                 new == hass_data'.lists[d]
             IN /\ Len(old) <= Len(new)
                /\ SubSeq(new, 1, Len(old)) = old
                /\ ToSet(Rest(new, Len(old))) = ToSet(Fresh(c)[d]) \ ToSet(old)
                /\ NoDuplicate(Rest(new, Len(old)))]_vars

\* A pass has appended two new devices to a non-empty stored list in an
\* order other than the one of the fresh bucketization.
C20_Witness ==
    /\ last.op = "discovery"
    /\ \E i \in DOMAIN last.sent :
          LET payload == last.sent[i].payload
              d == last.sent[i].signal[2]
              Sent(dev) == dev \in ToSet(payload)
          IN /\ Len(payload) >= 2
             /\ payload # SelectSeq(last.device_dict[d], Sent)
             /\ Len(hass_data.lists[d]) > Len(payload)
             /\ Rest(hass_data.lists[d], Len(hass_data.lists[d]) - Len(payload))
                   = payload

\* C21: a setup whose login succeeds runs two offloaded jobs, manager.login
\* and then manager.update, once each; a discovery pass runs manager.update
\* once; and stored buckets are written only by the step that follows a
\* completed poll.
C21_OnePollBeforeUse ==
    /\ []((last.op = "setup" /\ last.result = "True")
              => (last.logins = 1 /\ last.polls = 1))
    /\ []((last.op = "discovery" /\ last.result # "running")
              => last.polls = 1)
    /\ [][\A e \in DOMAIN entry :
             entry'[e].polls > entry[e].polls =>
                /\ entry[e].pc = "update"
                /\ entry[e].logins = 1 /\ entry[e].login = "True"
                /\ entry[e].polls = 0]_vars
    /\ [][hass_data' # hass_data =>
             \/ \E e \in DOMAIN entry :
                   entry[e].pc = "polled" /\ entry'[e].pc = "loaded"
             \/ \E c \in DOMAIN calls : IsReconcile(c)
             \/ last'.op = "unload"]_vars

\* A setup has returned True after its login and its poll, and a discovery
\* pass has since completed.
C21_Witness ==
    /\ last.op = "discovery"
    /\ last.result = "None"
    /\ last.polls = 1
    /\ \E e \in DOMAIN entry : entry[e].pc = "loaded"

\* The model set of a capability: all table keys and, for humidifier and
\* air purifier, every alias under "models".
ExpectedModels(capability) ==
    CASE capability = "air_purifier" ->
            {FAN_MODEL, "BBB-CCC-DDD", "Model2", "WWW-XXX-YYY"}
      [] capability = "humidifier" ->
            {HUMIDIFIER_MODEL, "AAA-BBB-CCC", "Model2", "XXX-YYY-ZZZ"}
      [] capability = "outlet" -> {OUTLET_MODEL, "Model2"}
      [] capability = "switch" -> {SWITCH_MODEL, "Model2"}
      [] capability = "dimmable_switch" -> {DIM_SWITCH_MODEL}

\* C22: on one helper, a query of a capability reads the feature table
\* exactly when the capability's cache is absent; the read builds the
\* cached model set (all keys plus, for humidifier and air purifier, every
\* alias), the set stays until reset_cache, and every later query answers
\* by membership in it without reading the table: one read between two
\* reset_cache calls.
C22_TableReadOnce ==
    /\ [][last'.op = "helper_query" =>
             LET k == CacheField(last'.capability)
             IN /\ last'.table_read <=> DEVICE_HELPER[k].is_none
                /\ (DEVICE_HELPER[k].is_none /\ last'.result # "raised") =>
                      DEVICE_HELPER'[k] = Cached(ExpectedModels(last'.capability))
                /\ ~DEVICE_HELPER[k].is_none =>
                      /\ DEVICE_HELPER'[k] = DEVICE_HELPER[k]
                      /\ last'.result = "True"
                            <=> last'.device_type \in DEVICE_HELPER[k].models
                      /\ last'.result # "raised"]_vars
    /\ [][\A k \in DOMAIN DEVICE_HELPER :
             (~DEVICE_HELPER[k].is_none /\ DEVICE_HELPER'[k] # DEVICE_HELPER[k])
                => last'.op = "reset_cache"]_vars

\* A humidifier alias has been recognised from the cache, without a read
\* of the table.
C22_Witness ==
    /\ last.op = "helper_query"
    /\ last.capability = "humidifier"
    /\ last.device_type = "AAA-BBB-CCC"
    /\ ~last.table_read
    /\ last.result = "True"

\* C23: a query of one capability leaves the caches of the other four
\* capabilities as they were, and reset_cache leaves all five caches
\* absent, whatever they held.
C23_OwnCacheOnly ==
    /\ [][last'.op = "helper_query" =>
             \A k \in DOMAIN DEVICE_HELPER :
                k # CacheField(last'.capability) =>
                   DEVICE_HELPER'[k] = DEVICE_HELPER[k]]_vars
    /\ [][last'.op = "reset_cache" =>
             \A k \in DOMAIN DEVICE_HELPER : DEVICE_HELPER'[k].is_none]_vars

\* is_switch has filled its cache while the dimmable-switch cache is still
\* absent and another capability's cache is filled.
C23_Witness ==
    /\ last.op = "helper_query"
    /\ last.capability = "switch"
    /\ ~DEVICE_HELPER.switch_models.is_none
    /\ DEVICE_HELPER.dim_switch_models.is_none
    /\ ~DEVICE_HELPER.outlet_models.is_none

\* The tables in place have a malformed entry in the table of the
\* capability.
MalformedFor(name, capability) ==
    \/ name = "air_malformed" /\ capability = "air_purifier"
    \/ name = "humid_malformed" /\ capability = "humidifier"
    \/ name = "switch_malformed" /\ capability \in {"switch", "dimmable_switch"}

\* C24: a query that has to build its cache from a table with a malformed
\* entry raises and leaves that cache absent; and in every reachable state
\* each cache is either absent or the fully computed model set of its
\* capability, never a part of it.
C24_MalformedTableRaises ==
    /\ \A capability \in Capabilities :
          LET cache == DEVICE_HELPER[CacheField(capability)]
          IN IF cache.is_none THEN cache = NoCache
             ELSE cache.models = ExpectedModels(capability)
    /\ (last.op = "helper_query" /\ last.table_read
           /\ MalformedFor(last.tables, last.capability))
          => /\ last.result = "raised"
             /\ DEVICE_HELPER[CacheField(last.capability)].is_none

\* A first humidifier query on a table with a malformed entry has raised,
\* on a helper whose outlet cache is filled.
C24_Witness ==
    /\ last.op = "helper_query"
    /\ last.capability = "humidifier"
    /\ last.tables = "humid_malformed"
    /\ last.result = "raised"
    /\ DEVICE_HELPER.humidifier_models.is_none
    /\ ~DEVICE_HELPER.outlet_models.is_none

\* C25: an async_unload_entry whose platform unload returns false returns
\* false and leaves hass.data as it was: the state stored by the entry's
\* setup is still there with the same content.
C25_FailedUnloadKeepsState ==
    [][\A e \in DOMAIN entry :
          (entry[e].pc = "loaded" /\ entry'[e].pc = "failed_unload") =>
             /\ last'.op = "unload" /\ last'.result = "False"
             /\ hass_data' = hass_data
             /\ hass_data'.present
             /\ service' = service
             /\ forward_tasks' = forward_tasks]_vars

\* An unload has failed on an entry whose buckets hold a device.
C25_Witness ==
    /\ last.op = "unload"
    /\ last.result = "False"
    /\ hass_data.present
    /\ hass_data.manager = last.entry
    /\ \E d \in Domains : hass_data.lists[d] # <<>>

\* The entry bound in the registered handler has been unloaded with
\* success and has not completed a setup since.
Unloaded(e) ==
    /\ service = e
    /\ entry[e].pc \in {"not_loaded", "login", "update", "polled"}

\* C26: once async_unload_entry has succeeded for a config entry, a call of
\* update_devices starts no pass for it: the handler does not go to the
\* poll of that entry's manager (and so reaches no reconcile step).
C26_NoPassAfterUnload ==
    [][\A c \in DOMAIN calls :
          (calls[c].pc = "idle" /\ calls'[c].pc = "update") =>
             ~Unloaded(calls'[c].config_entry)]_vars

\* C27: a successful async_setup_entry of a second config entry b leaves
\* what is stored for an already set-up entry a as it was: the stored
\* manager is still a's and the seven stored lists are unchanged, so that a
\* later pass for a works on a's manager and a's lists.
C27_SecondSetupKeepsFirst ==
    [][\A a, b \in DOMAIN entry :
          (/\ a # b
           /\ entry[a].pc = "loaded"
           /\ hass_data.present /\ hass_data.manager = a
           /\ entry[b].pc = "polled" /\ entry'[b].pc = "loaded") =>
             /\ hass_data'.manager = a
             /\ hass_data'.lists = hass_data.lists]_vars

\* The step in which an async_setup_entry stores its buckets and returns.
IsSetupFinish(e) == entry[e].pc = "polled" /\ entry'[e].pc = "loaded"

\* C28: from async_setup_entry on and over the discovery passes that follow
\* it, a platform setup is scheduled at most once for each bucket. Step by
\* step: a step schedules no platform twice; it schedules a platform only
\* when it leaves that bucket's stored list non-empty, and a discovery pass
\* only when it found that list empty; and no discovery pass empties a
\* stored list, so a bucket that holds a device is never scheduled again.
C28_SetupOncePerBucket ==
    [][((\E e \in DOMAIN entry : IsSetupFinish(e))
           \/ (\E c \in DOMAIN calls : IsReconcile(c))) =>
          /\ \A i, j \in DOMAIN last'.scheduled :
                i # j => last'.scheduled[i] # last'.scheduled[j]
          /\ \A i \in DOMAIN last'.scheduled :
                LET domain == PlatformDomain(last'.scheduled[i])
                IN /\ hass_data'.lists[domain] # <<>>
                   /\ (\E c \in DOMAIN calls : IsReconcile(c)) =>
                         hass_data.lists[domain] = <<>>
          /\ (\E c \in DOMAIN calls : IsReconcile(c)) =>
                \A domain \in Domains :
                   hass_data.lists[domain] # <<>> =>
                      hass_data'.lists[domain] # <<>>]_vars

\* A discovery pass has added a device to a bucket that held one (a signal,
\* no platform setup) and a first device to an empty bucket (a platform
\* setup).
C28_Witness ==
    /\ last.op = "discovery"
    /\ last.result = "None"
    /\ last.sent # <<>>
    /\ last.scheduled # <<>>

\* C29: with two update_devices calls of one entry in flight at once, every
\* reconcile step announces, per bucket, exactly the devices it appends to
\* the stored list, one time: in the payload of one signal, or as the list
\* for which the platform setup is scheduled (then the list was empty),
\* never both; none of them was stored before, none is appended twice, and
\* the stored devices stay where they are. A device is therefore announced
\* by the first step that stores it and by no later step of either call.
C29_AnnouncedOnce ==
    [][\A c \in DOMAIN calls : IsReconcile(c) =>
          \A domain \in Domains :
             LET old == hass_data.lists[domain]
                 new == hass_data'.lists[domain]
                 signals == {i \in DOMAIN last'.sent :
                                last'.sent[i].signal = VS_DISCOVERY(domain)}
                 setups == {i \in DOMAIN last'.scheduled :
                               PlatformDomain(last'.scheduled[i]) = domain}
             IN /\ Len(new) >= Len(old)
                /\ SubSeq(new, 1, Len(old)) = old
                /\ NoDuplicate(new)
                /\ Cardinality(signals) + Cardinality(setups) <= 1
                /\ \A i \in signals : last'.sent[i].payload = Rest(new, Len(old))
                /\ setups # {} => old = <<>>
                /\ (signals = {} /\ setups = {}) => new = old]_vars

\* A pass has signalled a new device of a bucket that held one, while the
\* other call, whose poll has completed too, has yet to reconcile.
C29_Witness ==
    /\ last.op = "discovery"
    /\ last.result = "None"
    /\ last.sent # <<>>
    /\ \E c \in DOMAIN calls :
          calls[c].pc = "polled" /\ calls[c].config_entry = last.entry

\* C30: the manager's four lists hold no device twice and are pairwise
\* disjoint in every poll; then no stored bucket list holds a device twice,
\* in any state after a setup or after any number of discovery passes.
C30_NoDeviceTwice ==
    \A domain \in Domains : NoDuplicate(hass_data.lists[domain])

\* A discovery pass has brought a stored list to two devices or more.
C30_Witness ==
    /\ last.op = "discovery"
    /\ last.result = "None"
    /\ \E domain \in Domains :
          /\ Len(hass_data.lists[domain]) >= 2
          /\ \E i \in DOMAIN last.sent : last.sent[i].signal = VS_DISCOVERY(domain)

====
